---------------------------- MODULE Spec2Model ----------------------------
(***************************************************************************)
(* dblite.Storage (src/dblite/__init__.py): python dictionaries stored in  *)
(* one sqlite table, addressed by "sqlite://<database>:<table>".           *)
(*                                                                         *)
(* Strings are sequences of symbols.  A URI is a sequence over UriAlphabet, *)
(* where the symbol "sqlite" stands for that six-letter word and "x" for   *)
(* any other identifier character.  An SQL statement is the sequence of    *)
(* its tokens.  The python value None and the SQL value NULL are both the  *)
(* string "NULL".                                                          *)
(***************************************************************************)
EXTENDS Integers, Sequences, FiniteSets, TLC

\* ------------------------------------------------------------------ bounds
MaxUriLen == 7
MaxRowid == 2
MaxN == 3
MaxPuts == 4
MaxList == 2

\* ------------------------------------------------------- python's str
NULL == "NULL"

UriAlphabet == {"sqlite", "x", ":", "/", " "}

SeqsUpTo(S, n) == UNION {[1..k -> S] : k \in 0..n}

IsPrefixAt(s, sep, i) ==
    /\ i + Len(sep) - 1 <= Len(s)
    /\ \A j \in 1..Len(sep) : s[i + j - 1] = sep[j]

\* str.find(sep): python's 0-based index of the first occurrence, -1 if none
Find(s, sep) ==
    LET hits == {i \in 1..Len(s) : IsPrefixAt(s, sep, i)}
    IN IF hits = {} THEN -1
       ELSE (CHOOSE i \in hits : \A j \in hits : i <= j) - 1

\* str.split(sep): the pieces between the non-overlapping occurrences of sep,
\* found left to right
RECURSIVE Split(_, _)
Split(s, sep) ==
    LET at == Find(s, sep)
    IN IF at < 0 THEN <<s>>
       ELSE <<SubSeq(s, 1, at)>>
            \o Split(SubSeq(s, at + Len(sep) + 1, Len(s)), sep)

SUPPORTED_BACKENDS == {<<"sqlite">>}

\* Storage.parse_uri: [err, database, table]
parse_uri(uri) ==
    IF uri = <<>> \/ Find(uri, <<":", "/", "/">>) <= 0
    THEN [err |-> "RuntimeError", database |-> <<>>, table |-> <<>>]
    ELSE LET parts == Split(uri, <<":", "/", "/">>)
         IN IF Len(parts) # 2
            THEN [err |-> "ValueError", database |-> <<>>, table |-> <<>>]
            ELSE IF parts[1] \notin SUPPORTED_BACKENDS
            THEN [err |-> "RuntimeError", database |-> <<>>, table |-> <<>>]
            ELSE LET rest == Split(parts[2], <<":">>)
                 IN IF Len(rest) # 2
                    THEN [err |-> "ValueError", database |-> <<>>,
                          table |-> <<>>]
                    ELSE [err |-> "none", database |-> rest[1],
                          table |-> rest[2]]


\* ------------------------------------------------- the criteria translator
\* dblite.sql.WhereBuilder: operator key -> SQL form
ScalarOperators == {"equals", "not-equals", "greater-than",
                    "greater-or-equal", "less-than", "less-or-equal"}
SetOperators == {"in-set", "not-in-set"}
NullOperators == {"is-null"}
Operators == ScalarOperators \cup SetOperators \cup NullOperators

OperatorSql(op) ==
    CASE op = "equals" -> "="
      [] op = "not-equals" -> "<>"
      [] op = "greater-than" -> ">"
      [] op = "greater-or-equal" -> ">="
      [] op = "less-than" -> "<"
      [] op = "less-or-equal" -> "<="
      [] op = "in-set" -> "IN"
      [] op = "not-in-set" -> "NOT IN"

\* field names safe for direct use as an SQL identifier
SafeFields == {"a", "b", "_id"}

\* one entry of the caller's mapping: a bare value is op "bare"
ValidEntry(e) ==
    /\ e.field \in SafeFields
    /\ \/ e.op = "bare" /\ e.operand.shape = "scalar"
       \/ e.op \in ScalarOperators /\ e.operand.shape = "scalar"
       \/ e.op \in SetOperators /\ e.operand.shape = "seq"
                                /\ e.operand.v # <<>>
       \/ e.op \in NullOperators /\ e.operand.shape = "flag"

\* buildCriteria: None and the empty mapping are the empty Criteria
buildCriteria(input) ==
    IF input.kind = "None" THEN [err |-> "none", criteria |-> <<>>]
    ELSE IF \E i \in 1..Len(input.entries) : ~ValidEntry(input.entries[i])
    THEN [err |-> "InvalidCriteria", criteria |-> <<>>]
    ELSE [err |-> "none",
          criteria |-> [i \in 1..Len(input.entries) |->
              [input.entries[i] EXCEPT
                  !.op = IF @ = "bare" THEN "equals" ELSE @]]]

CriterionSql(c) ==
    IF c.op \in ScalarOperators THEN <<c.field, OperatorSql(c.op), "?">>
    ELSE IF c.op \in SetOperators
    THEN <<c.field, OperatorSql(c.op), "(">>
         \o [i \in 1..Len(c.operand.v) |-> "?"] \o <<")">>
    ELSE <<c.field, IF c.operand.v THEN "IS NULL" ELSE "IS NOT NULL">>

CriterionParams(c) ==
    IF c.op \in ScalarOperators THEN <<c.operand.v>>
    ELSE IF c.op \in SetOperators THEN c.operand.v
    ELSE <<>>

\* translate: the per-Criterion forms in order, joined with AND
RECURSIVE translate(_)
translate(criteria) ==
    IF criteria = <<>> THEN [fragment |-> <<>>, parameters |-> <<>>]
    ELSE LET head == criteria[1]
             rest == translate(Tail(criteria))
         IN [fragment |-> CriterionSql(head)
                 \o (IF Len(criteria) > 1 THEN <<"AND">> ELSE <<>>)
                 \o rest.fragment,
             parameters |-> CriterionParams(head) \o rest.parameters]

\* WhereBuilder().parse(criteria): [err, fragment, parameters]
WhereBuilderParse(input) ==
    LET built == buildCriteria(input)
        tr == translate(built.criteria)
    IN [err |-> built.err, fragment |-> tr.fragment,
        parameters |-> tr.parameters]

\* ------------------------------------------------------------- sqlite3
\* the item class's declared fields, and the order a dict of them iterates in
Fieldnames == {"a", "b", "_id"}
ItemOrder == <<"a", "_id", "b">>

\* Storage._create_table: every field but '_id' is a column
Columns == {f \in Fieldnames : f # "_id"}

CellValues == {NULL, "v1"}
Rows == [Columns -> CellValues]
AllRecords == UNION {[ids -> Rows] : ids \in SUBSET (1..MaxRowid)}

Count(s, tok) == Cardinality({i \in 1..Len(s) : s[i] = tok})

\* the tokens of s after the first `from` and before the first `to`
Between(s, from, to) ==
    SubSeq(s, Find(s, <<from>>) + 2, Find(s, <<to>>))

MaxOf(S) == IF S = {} THEN 0 ELSE CHOOSE m \in S : \A n \in S : n <= m

\* one condition of a WHERE clause that holds no placeholder
CondHolds(cond, row) ==
    IF cond[2] = "IS NULL" THEN row[cond[1]] = NULL
    ELSE row[cond[1]] # NULL

\* cursor.execute(SQL) of a SELECT or DELETE, no parameters given:
\* [err, rowids], the rowids the statement selects
ExecuteNoParams(sql, recs) ==
    LET where == IF Count(sql, "WHERE") = 0 THEN <<>>
                 ELSE Between(sql, "WHERE", ";")
        conds == IF where = <<>> THEN <<>> ELSE Split(where, <<"AND">>)
    IN IF \E i \in 1..Len(conds) : conds[i][1] \notin Columns
       THEN [err |-> "sqlite3.OperationalError", rowids |-> {}]
       ELSE IF Count(sql, ";") > 1
       THEN [err |-> "sqlite3.Warning", rowids |-> {}]
       ELSE IF Count(sql, "?") # 0
       THEN [err |-> "sqlite3.ProgrammingError", rowids |-> {}]
       ELSE [err |-> "none",
             rowids |-> {r \in DOMAIN recs :
                 \A i \in 1..Len(conds) : CondHolds(conds[i], recs[r])}]

\* cursor.execute(SQL, values) of an INSERT: [err, recs]
ExecuteInsert(sql, values, recs) ==
    LET cols == Between(sql, "(", ")")
        rowid == MaxOf(DOMAIN recs) + 1
        row == [c \in Columns |->
                  IF \E i \in 1..Len(cols) : cols[i] = c
                  THEN values[CHOOSE i \in 1..Len(cols) : cols[i] = c]
                  ELSE NULL]
    IN IF cols = <<>> \/ \E i \in 1..Len(cols) : cols[i] \notin Columns
       THEN [err |-> "sqlite3.OperationalError", recs |-> recs]
       ELSE [err |-> "none",
             recs |-> [r \in DOMAIN recs \cup {rowid} |->
                         IF r = rowid THEN row ELSE recs[r]]]

\* cursor.execute(SQL, values) of an UPDATE ... WHERE rowid=?: [err, recs]
ExecuteUpdate(sql, values, recs) ==
    LET sets == Between(sql, "SET", "WHERE")
        cols == [i \in 1..(Len(sets) \div 2) |-> sets[2 * i - 1]]
        rowid == values[Len(values)]
    IN IF cols = <<>> \/ \E i \in 1..Len(cols) : cols[i] \notin Columns
       THEN [err |-> "sqlite3.OperationalError", recs |-> recs]
       ELSE [err |-> "none",
             recs |-> [r \in DOMAIN recs |->
                 IF r # rowid THEN recs[r]
                 ELSE [c \in Columns |->
                         IF \E i \in 1..Len(cols) : cols[i] = c
                         THEN values[CHOOSE i \in 1..Len(cols) : cols[i] = c]
                         ELSE recs[r][c]]]]

RECURSIVE SortedSeq(_)
SortedSeq(S) ==
    IF S = {} THEN <<>>
    ELSE LET m == CHOOSE x \in S : \A y \in S : x <= y
         IN <<m>> \o SortedSeq(S \ {m})

\* Storage._dict_factory: the rowid column becomes the '_id' field
dict_factory(rowid, row) ==
    [f \in Fieldnames |-> IF f = "_id" THEN rowid ELSE row[f]]

\* ------------------------------------------------------------- Storage
VARIABLES
    uri,             \* the URI given to the constructor
    opened,          \* "new" before __init__; then "ok" or the error raised
    db,              \* self._db
    table_name,      \* self._table
    autocommit,      \* self._autocommit: a bool (on) or an int (n)
    commit_counter,  \* self._commit_counter
    records,         \* the table: rowid -> row
    nput,            \* _put_one calls that reached _do_autocommit so far
    last             \* the last call: its arguments and what it did

vars == <<uri, opened, db, table_name, autocommit, commit_counter, records,
          nput, last>>

NoCall == [op |-> "none", arg |-> <<>>, all |-> FALSE, executed |-> <<>>,
           err |-> "none", result |-> <<>>, commits |-> 0]

\* str.split(' ')[0] of the table part
FirstWord(table) == Split(table, <<" ">>)[1]

\* 'CREATE TABLE IF NOT EXISTS <table> (<fields>);' is accepted for a table
\* name that is one identifier
IsIdentifier(name) ==
    /\ name # <<>>
    /\ \A i \in 1..Len(name) : name[i] \in {"sqlite", "x"}

\* Storage.__init__; connects tells whether sqlite3.connect(database) opens
\* the file: [err, db, table]
StorageInit(u, connects) ==
    LET parsed == parse_uri(u)
        failed(e) == [err |-> e, db |-> <<>>, table |-> <<>>]
    IN IF parsed.err # "none" THEN failed(parsed.err)
       ELSE IF parsed.database = <<>> THEN failed("RuntimeError")
       ELSE IF parsed.table = <<>> THEN failed("RuntimeError")
       ELSE IF ~connects THEN failed("RuntimeError")
       ELSE IF ~IsIdentifier(FirstWord(parsed.table))
       THEN failed("RuntimeError")
       ELSE [err |-> "none", db |-> parsed.database,
             table |-> FirstWord(parsed.table)]

\* open(item, uri, autocommit)
Open(connects) ==
    /\ opened = "new"
    /\ LET made == StorageInit(uri, connects)
       IN /\ opened' = IF made.err = "none" THEN "ok" ELSE made.err
          /\ db' = made.db
          /\ table_name' = made.table
    /\ UNCHANGED <<uri, autocommit, commit_counter, records, nput, last>>

\* _do_autocommit testing the counter before it is increased
do_autocommit_stale(counter) ==
    IF autocommit.type = "bool" /\ autocommit.on
    THEN [counter |-> 0, commits |-> 1]
    ELSE IF autocommit.type = "int" /\ autocommit.n > 0
    THEN IF counter % autocommit.n = 0
         THEN [counter |-> 0, commits |-> 1]
         ELSE [counter |-> counter + 1, commits |-> 0]
    ELSE [counter |-> counter + 1, commits |-> 0]

\* Storage._do_autocommit: [counter, commits]
do_autocommit(counter) ==
    LET c == counter + 1
    IN IF autocommit.type = "bool" /\ autocommit.on
       THEN [counter |-> 0, commits |-> 1]
       ELSE IF autocommit.type = "int" /\ autocommit.n > 0
       THEN IF c % autocommit.n = 0
            THEN [counter |-> 0, commits |-> 1]
            ELSE [counter |-> c, commits |-> 0]
       ELSE [counter |-> c, commits |-> 0]

\* dict iteration: the keys of item in ItemOrder
ItemKeys(item) == SelectSeq(ItemOrder, LAMBDA k : k \in DOMAIN item)

NotId(f) == f # "_id"

\* _put_one without its "if f != '_id'" filters
PutStatementKeepsId(item) ==
    LET fields == ItemKeys(item)
        values == [i \in 1..Len(fields) |-> item[fields[i]]]
        marks == [i \in 1..Len(fields) |-> "?"]
    IN IF "_id" \in DOMAIN item
       THEN [sql |-> <<"UPDATE">> \o table_name \o <<"SET">>
                     \o [i \in 1..(2 * Len(fields)) |->
                           IF i % 2 = 1 THEN fields[(i + 1) \div 2] ELSE "=?"]
                     \o <<"WHERE", "rowid=?", ";">>,
             params |-> Append(values, item["_id"])]
       ELSE [sql |-> <<"INSERT INTO">> \o table_name \o <<"(">> \o fields
                     \o <<")", "VALUES", "(">> \o marks \o <<")", ";">>,
             params |-> values]

\* the statement and the values _put_one hands to cursor.execute
PutStatement(item) ==
    LET fields == SelectSeq(ItemKeys(item), NotId)
        values == [i \in 1..Len(fields) |-> item[fields[i]]]
        marks == [i \in 1..Len(fields) |-> "?"]
    IN IF "_id" \in DOMAIN item
       THEN [sql |-> <<"UPDATE">> \o table_name \o <<"SET">>
                     \o [i \in 1..(2 * Len(fields)) |->
                           IF i % 2 = 1 THEN fields[(i + 1) \div 2] ELSE "=?"]
                     \o <<"WHERE", "rowid=?", ";">>,
             params |-> Append(values, item["_id"])]
       ELSE [sql |-> <<"INSERT INTO">> \o table_name \o <<"(">> \o fields
                     \o <<")", "VALUES", "(">> \o marks \o <<")", ";">>,
             params |-> values]

\* Storage._put_one on the store st = [records, counter, nput]:
\* [err, records, counter, nput, executed, commits]
put_one(item, st) ==
    LET stmt == PutStatement(item)
        done == IF "_id" \in DOMAIN item
                THEN ExecuteUpdate(stmt.sql, stmt.params, st.records)
                ELSE ExecuteInsert(stmt.sql, stmt.params, st.records)
        ac == do_autocommit(st.counter)
    IN IF done.err # "none"
       THEN [err |-> "RuntimeError", records |-> st.records,
             counter |-> st.counter, nput |-> st.nput,
             executed |-> <<stmt>>, commits |-> 0]
       ELSE [err |-> "none", records |-> done.recs, counter |-> ac.counter,
             nput |-> st.nput + 1, executed |-> <<stmt>>,
             commits |-> ac.commits]

\* Storage._put_many: the items in order, up to the first that fails
RECURSIVE put_many(_, _)
put_many(items, st) ==
    IF items = <<>>
    THEN [err |-> "none", records |-> st.records, counter |-> st.counter,
          nput |-> st.nput, executed |-> <<>>, commits |-> 0]
    ELSE IF items[1].kind # "item"
    THEN [err |-> "RuntimeError", records |-> st.records,
          counter |-> st.counter, nput |-> st.nput, executed |-> <<>>,
          commits |-> 0]
    ELSE LET one == put_one(items[1].item, st)
             rest == put_many(Tail(items), one)
         IN IF one.err # "none" THEN one
            ELSE [rest EXCEPT !.executed = one.executed \o @,
                              !.commits = one.commits + @]

\* Storage.put(item): an item, a list of items, or anything else
put(arg, st) ==
    IF arg.kind = "item" THEN put_one(arg.item, st)
    ELSE IF arg.kind = "list" THEN put_many(arg.items, st)
    ELSE [err |-> "RuntimeError", records |-> st.records,
          counter |-> st.counter, nput |-> st.nput, executed |-> <<>>,
          commits |-> 0]

Put(args) ==
    /\ opened = "ok"
    /\ \E arg \in args :
         \E done \in {put(arg, [records |-> records,
                               counter |-> commit_counter, nput |-> nput])} :
            /\ done.nput <= MaxPuts
            /\ DOMAIN done.records \subseteq 1..MaxRowid
            /\ records' = done.records
            /\ commit_counter' = done.counter
            /\ nput' = done.nput
            /\ last' = [op |-> "put", arg |-> arg, all |-> FALSE,
                        executed |-> done.executed, err |-> done.err,
                        result |-> <<>>, commits |-> done.commits]
    /\ UNCHANGED <<uri, opened, db, table_name, autocommit>>

\* Storage.commit
Commit ==
    /\ opened = "ok"
    /\ last' = [NoCall EXCEPT !.op = "commit", !.commits = 1]
    /\ UNCHANGED <<uri, opened, db, table_name, autocommit, commit_counter,
                   records, nput>>

\* the statement get() and delete() build around the WHERE fragment:
\* ' '.join((SQL, 'WHERE', WHERE, ';'))
WithWhere(sql, fragment) == sql \o <<"WHERE">> \o fragment \o <<";">>

\* ''.join((SQL, ';'))
Terminated(sql) == sql \o <<";">>

\* get() appending WHERE whatever the fragment
GetStatementAlwaysWhere(where) ==
    WithWhere(<<"SELECT rowid,* FROM">> \o table_name, where.fragment)

\* Storage.get(criteria), iterated to its end
GetStatement(where) ==
    LET sql == <<"SELECT rowid,* FROM">> \o table_name
    IN IF where.fragment # <<>> THEN WithWhere(sql, where.fragment)
       ELSE Terminated(sql)

\* [err, executed, result]
get(criteria) ==
    LET where == WhereBuilderParse(criteria)
        sql == GetStatement(where)
        done == ExecuteNoParams(sql, records)
        ids == SortedSeq(done.rowids)
    IN IF where.err # "none"
       THEN [err |-> where.err, executed |-> <<>>, result |-> <<>>]
       ELSE [err |-> done.err,
             executed |-> <<[sql |-> sql, params |-> <<>>]>>,
             result |-> [i \in 1..Len(ids) |->
                           dict_factory(ids[i], records[ids[i]])]]

Get(inputs) ==
    /\ opened = "ok"
    /\ \E criteria \in inputs :
         \E done \in {get(criteria)} :
            last' = [op |-> "get", arg |-> criteria, all |-> FALSE,
                     executed |-> done.executed, err |-> done.err,
                     result |-> done.result, commits |-> 0]
    /\ UNCHANGED <<uri, opened, db, table_name, autocommit, commit_counter,
                   records, nput>>

\* delete() turning an item into a mapping of all its fields
DeleteCriteriaAllFields(criteria) ==
    IF criteria.kind = "item"
    THEN [kind |-> "dict",
          entries |-> [i \in 1..Len(ItemKeys(criteria.item)) |->
              [field |-> ItemKeys(criteria.item)[i], op |-> "bare",
               operand |-> [shape |-> "scalar",
                            v |-> criteria.item[ItemKeys(criteria.item)[i]]]]]]
    ELSE criteria

\* delete(): an item given as criteria becomes {'_id': criteria['_id']}
DeleteCriteria(criteria) ==
    IF criteria.kind = "item"
    THEN [kind |-> "dict",
          entries |-> <<[field |-> "_id", op |-> "bare",
                         operand |-> [shape |-> "scalar",
                                      v |-> criteria.item["_id"]]]>>]
    ELSE criteria

\* delete() without its "elif not _all: raise"
DeleteStatementNoRaise(where, all) ==
    LET sql == <<"DELETE FROM">> \o table_name
        first == IF where.fragment # <<>>
                 THEN WithWhere(sql, where.fragment) ELSE sql
    IN IF all THEN Terminated(first) ELSE first

\* the statement delete() hands to cursor.execute, <<>> when it raises
\* RuntimeError('Criteria is not defined') instead
DeleteStatement(where, all) ==
    LET sql == <<"DELETE FROM">> \o table_name
        first == IF where.fragment # <<>>
                 THEN WithWhere(sql, where.fragment) ELSE sql
    IN IF where.fragment = <<>> /\ ~all THEN <<>>
       ELSE IF all THEN Terminated(first)
       ELSE first

\* Storage.delete(criteria, _all): [err, executed, records]
delete(criteria, all) ==
    LET raised(e) == [err |-> e, executed |-> <<>>, records |-> records]
        where == WhereBuilderParse(DeleteCriteria(criteria))
        sql == DeleteStatement(where, all)
        done == ExecuteNoParams(sql, records)
    IN IF criteria.kind = "item" /\ "_id" \notin DOMAIN criteria.item
       THEN raised("KeyError")
       ELSE IF where.err # "none" THEN raised(where.err)
       ELSE IF sql = <<>> THEN raised("RuntimeError")
       ELSE [err |-> done.err,
             executed |-> <<[sql |-> sql, params |-> <<>>]>>,
             records |-> [r \in DOMAIN records \ done.rowids |-> records[r]]]

Delete(inputs, alls) ==
    /\ opened = "ok"
    /\ \E criteria \in inputs, all \in alls :
         \E done \in {delete(criteria, all)} :
            /\ records' = done.records
            /\ last' = [op |-> "delete", arg |-> criteria, all |-> all,
                        executed |-> done.executed, err |-> done.err,
                        result |-> <<>>, commits |-> 0]
    /\ UNCHANGED <<uri, opened, db, table_name, autocommit, commit_counter,
                   nput>>

\* ------------------------------------------------------------- inputs
ItemValues == {"v1", NULL}

\* an item of the item class: some of the columns set, '_id' set or not
MkItem(g, id) ==
    IF id = 0 THEN g
    ELSE [k \in DOMAIN g \cup {"_id"} |-> IF k = "_id" THEN id ELSE g[k]]

Items ==
    {MkItem(g, id) :
        g \in UNION {[ks -> ItemValues] : ks \in SUBSET Columns},
        id \in 0..MaxRowid}

ItemArgs == {[kind |-> "item", item |-> it] : it \in Items}

\* lists handed to put(): new items, and one with an element of another type
ListItems == {it \in ItemArgs : DOMAIN it.item \in {{}, {"a"}}
                                /\ \A k \in DOMAIN it.item : it.item[k] = "v1"}
ListArgs ==
    {[kind |-> "list", items |-> l] :
        l \in SeqsUpTo(ListItems \cup {[kind |-> "other"]}, MaxList)}

Scalar(v) == [shape |-> "scalar", v |-> v]
List(v) == [shape |-> "seq", v |-> v]
Flag(v) == [shape |-> "flag", v |-> v]
Entry(f, op, operand) == [field |-> f, op |-> op, operand |-> operand]

ValidEntries ==
    {Entry("a", "bare", Scalar("v1")),
     Entry("a", "is-null", Flag(TRUE)),
     Entry("b", "is-null", Flag(FALSE)),
     Entry("b", "in-set", List(<<"v1", "v1">>)),
     Entry("_id", "bare", Scalar(1))}

InvalidEntries ==
    {Entry("", "bare", Scalar("v1")),
     Entry("a", "bogus-op", Scalar("v1")),
     Entry("b", "in-set", List(<<>>))}

\* the mappings given as criteria: empty, one entry, or two on distinct fields
Dicts ==
    {<<>>} \cup {<<e>> : e \in ValidEntries \cup InvalidEntries}
    \cup {<<e, f>> : e \in {x \in ValidEntries : x.field = "a"},
                     f \in {x \in ValidEntries \cup InvalidEntries :
                              x.field = "b"}}

NoneArg == [kind |-> "None"]
DictArgs == {[kind |-> "dict", entries |-> d] : d \in Dicts}
CriteriaArgs == {NoneArg} \cup DictArgs

\* ------------------------------------------------------- specifications
NoAutocommit == [type |-> "bool", on |-> FALSE, n |-> 0]

ValidUri == <<"sqlite", ":", "/", "/", "x", ":", "x">>

Autocommits ==
    {[type |-> "bool", on |-> b, n |-> 0] : b \in BOOLEAN}
    \cup {[type |-> "int", on |-> FALSE, n |-> n] : n \in 0..MaxN}

\* the state open(item, ValidUri, ac) returns over a database file that
\* holds recs
Constructed(ac, recs) ==
    /\ uri = ValidUri
    /\ opened = "ok"
    /\ db = StorageInit(ValidUri, TRUE).db
    /\ table_name = StorageInit(ValidUri, TRUE).table
    /\ autocommit = ac
    /\ commit_counter = 0
    /\ records = recs
    /\ nput = 0
    /\ last = NoCall

\* construction, over every URI
InitUri ==
    /\ uri \in SeqsUpTo(UriAlphabet, MaxUriLen)
    /\ opened = "new"
    /\ db = <<>>
    /\ table_name = <<>>
    /\ autocommit = NoAutocommit
    /\ commit_counter = 0
    /\ records = <<>>
    /\ nput = 0
    /\ last = NoCall

NextUri == \E connects \in BOOLEAN : Open(connects)

SpecUri == InitUri /\ [][NextUri]_vars

\* what delete() is handed as criteria: None, a mapping, or an item
DeleteArgs == CriteriaArgs \cup ItemArgs

\* get() and delete() over every table
InitQuery ==
    \E recs \in AllRecords :
        Constructed(NoAutocommit, recs)

NextQuery ==
    \/ Get(CriteriaArgs)
    \/ Delete(DeleteArgs, BOOLEAN)

SpecQuery == InitQuery /\ [][NextQuery]_vars

\* put() of one item over every table
InitPut ==
    \E recs \in AllRecords : Constructed(NoAutocommit, recs)

NextPut == Put(ItemArgs)

SpecPut == InitPut /\ [][NextPut]_vars

\* put() and commit() under every autocommit policy, from an empty table
CommitItems ==
    {it \in ItemArgs : /\ DOMAIN it.item \in {{}, {"a"}, {"a", "_id"}}
                       /\ \A k \in DOMAIN it.item \ {"_id"} :
                            it.item[k] = "v1"}

\* what put() is handed: an item, a list, or a value of another type
CommitArgs == CommitItems \cup ListArgs \cup {[kind |-> "other"]}

InitCommit ==
    \E ac \in Autocommits : Constructed(ac, <<>>)

NextCommit ==
    \/ Put(CommitArgs)
    \/ Commit

SpecCommit == InitCommit /\ [][NextCommit]_vars

\* --------------------------------------------------------------- claims
\* the one statement the last call executed
LastSql == last.executed[1].sql

\* the last call was get() or delete() with criteria the translator accepts
\* and turns into the empty fragment
EmptyCriteria(arg) ==
    /\ arg.kind \in {"None", "dict"}
    /\ WhereBuilderParse(arg).err = "none"
    /\ WhereBuilderParse(arg).fragment = <<>>

\* C1: get() with criteria that is None or empty executes a SELECT without a
\* WHERE clause and yields exactly one item per stored record, each with the
\* record's rowid as '_id' and its column values; a WHERE clause is in the
\* statement only when the translated fragment is not empty.
C1_GetWithoutCriteria ==
    last.op = "get" =>
      /\ EmptyCriteria(last.arg) =>
           /\ last.err = "none"
           /\ Len(last.executed) = 1
           /\ Count(LastSql, "WHERE") = 0
           /\ Len(last.result) = Cardinality(DOMAIN records)
           /\ \A r \in DOMAIN records :
                \E i \in 1..Len(last.result) :
                    /\ last.result[i]["_id"] = r
                    /\ \A c \in Columns : last.result[i][c] = records[r][c]
      /\ (last.executed # <<>> /\ Count(LastSql, "WHERE") > 0) =>
           WhereBuilderParse(last.arg).fragment # <<>>

C1_Witness ==
    /\ last.op = "get"
    /\ last.arg = NoneArg
    /\ Cardinality(DOMAIN records) = 2
    /\ Len(last.result) = 2

\* C2: delete(r) of an item r with r['_id'] = k does to the table what
\* delete({'_id': k}) does, whatever r's other fields: the same statement is
\* executed, with the same outcome and the same table afterwards.
C2_DeleteByItemIsDeleteById ==
    [][(/\ last'.op = "delete"
        /\ last'.arg.kind = "item"
        /\ "_id" \in DOMAIN last'.arg.item)
       => LET k == last'.arg.item["_id"]
              byId == delete([kind |-> "dict",
                              entries |-> <<Entry("_id", "bare", Scalar(k))>>],
                             last'.all)
          IN /\ records' = byId.records
             /\ last'.executed = byId.executed
             /\ last'.err = byId.err]_vars

C2_Witness ==
    /\ last.op = "delete"
    /\ last.arg.kind = "item"
    /\ DOMAIN last.arg.item = {"a", "b", "_id"}
    /\ last.arg.item["_id"] \in DOMAIN records
    /\ last.executed # <<>>

\* C3: every statement get() or delete() executes with a WHERE fragment is
\* executed with the translation's parameters, one per '?' of the statement.
C3_ParametersBound ==
    (/\ last.op \in {"get", "delete"}
     /\ last.executed # <<>>
     /\ Count(LastSql, "WHERE") > 0)
    => Len(last.executed[1].params) = Count(LastSql, "?")

\* the put indices, among those a call made, at which the policy commits
CommitsAt(k) ==
    \/ autocommit.type = "bool" /\ autocommit.on
    \/ autocommit.type = "int" /\ autocommit.n > 0 /\ k % autocommit.n = 0

\* C4: a put() commits once for every put of one item it makes that the
\* autocommit policy names: each of them under True, none under False, every
\* N-th put since construction under an integer N > 0; a put that fails is
\* not counted and commits nothing.
C4_AutocommitPolicy ==
    [][last'.op = "put"
       => last'.commits =
            Cardinality({k \in (nput + 1)..nput' : CommitsAt(k)})]_vars

C4_Witness ==
    /\ autocommit = [type |-> "int", on |-> FALSE, n |-> 2]
    /\ last.op = "put"
    /\ last.arg.kind = "item"
    /\ nput = 4
    /\ last.commits = 1

\* C5: delete() with criteria that is None or empty and _all=False raises
\* RuntimeError, executes no statement and leaves the table and the commit
\* counter as they were.
C5_DeleteNeedsCriteria ==
    [][(/\ last'.op = "delete"
        /\ ~last'.all
        /\ EmptyCriteria(last'.arg))
       => /\ last'.err = "RuntimeError"
          /\ last'.executed = <<>>
          /\ records' = records
          /\ commit_counter' = commit_counter]_vars

C5_Witness ==
    /\ last.op = "delete"
    /\ last.arg = [kind |-> "dict", entries |-> <<>>]
    /\ ~last.all
    /\ last.err = "RuntimeError"
    /\ Cardinality(DOMAIN records) = 2

\* C6: delete() with _all=True executes one DELETE with exactly one
\* statement terminator and leaves the table empty, whatever the criteria.
C6_DeleteAllEmptiesTable ==
    (/\ last.op = "delete"
     /\ last.all
     /\ last.arg.kind \in {"None", "dict"}
     /\ WhereBuilderParse(last.arg).err = "none")
    => /\ Len(last.executed) = 1
       /\ Count(LastSql, ";") = 1
       /\ last.err = "none"
       /\ records = <<>>

\* C7: constructing a Storage either succeeds, with a non-empty database
\* name and a non-empty table name, or raises RuntimeError.
C7_OpenOkOrRuntimeError ==
    opened # "new" =>
        \/ opened = "ok" /\ db # <<>> /\ table_name # <<>>
        \/ opened = "RuntimeError"

\* the columns a put statement names
WrittenColumns(sql) ==
    IF sql[1] = "UPDATE"
    THEN {Between(sql, "SET", "WHERE")[i] :
            i \in {j \in 1..Len(Between(sql, "SET", "WHERE")) : j % 2 = 1}}
    ELSE {Between(sql, "(", ")")[i] : i \in 1..Len(Between(sql, "(", ")"))}

\* what put() of one item does when it inserts
Inserted(item) ==
    /\ Cardinality(DOMAIN records') = Cardinality(DOMAIN records) + 1
    /\ \A r \in DOMAIN records : r \in DOMAIN records' /\ records'[r] = records[r]
    /\ \A r \in DOMAIN records' \ DOMAIN records :
         \A c \in Columns :
            records'[r][c] = IF c \in DOMAIN item THEN item[c] ELSE NULL

\* what put() of one item does when it updates
Updated(item) ==
    /\ DOMAIN records' = DOMAIN records
    /\ \A r \in DOMAIN records :
         \A c \in Columns :
            records'[r][c] = IF r = item["_id"] /\ c \in DOMAIN item
                             THEN item[c] ELSE records[r][c]

PutOfOneItem ==
    /\ last'.op = "put"
    /\ last'.arg.kind = "item"

=============================================================================
